---- MODULE Spec2Model ----
(***************************************************************************)
(* State-machine model of brave_textual_search.py: the Brave search client *)
(* with its retry policy, the background search threads, the Textual       *)
(* session (query, page, result list, status bar), the persisted set of    *)
(* clicked URLs (clicked.json) and the click log (click_log.csv).          *)
(*                                                                         *)
(* Strings are sequences of one-character strings, so that str.strip(),    *)
(* sorted() and the JSON round trip are computed and not assumed.  Times   *)
(* are in tenths of a second.                                              *)
(*                                                                         *)
(* The specifications share the definitions:                               *)
(*   SpecCall       one call of brave_search, attempt by attempt;          *)
(*   SpecPaging     the session with concurrent searches and paging;       *)
(*   Spec           the session with the click store: searches one at a    *)
(*                  time, opens with every outcome of the browser, the log *)
(*                  and the save, and restarts of the program;             *)
(*   SpecOpen       the same session, open_result statement by statement;  *)
(*   SpecNormalize  the session with queries of every spelling;            *)
(*   SpecStore      the click store alone, SpecLoad from any file.         *)
(* In the session specifications a search thread is one step, from the     *)
(* start of brave_search to the end of the callback it hands to the main   *)
(* thread (call_from_thread blocks the thread until the callback has run). *)
(***************************************************************************)
EXTENDS Integers, Sequences, FiniteSets, TLC

\* ---------------------------------------------------------------- bounds
\* Threads that may be alive at once (the code starts one per search).
MaxThreads == 2
\* Largest page index the user is let to reach.
MaxPage == 2

\* ---------------------------------------------------- program constants
\* stop_after_attempt(3)
StopAfterAttempt == 3
\* wait_exponential(multiplier=0.7, min=0.7, max=4), in tenths of a second
WaitMultiplier == 7
WaitMin == 7
WaitMax == 40
\* resp.text[:400]
ExcerptLen == 400
\* self.count_per_page = 20, and the clamp of count into [1, 20]
CountPerPage == 20
MinCount == 1
MaxCount == 20

\* ------------------------------------------------------------- strings
\* Python's None, kept apart from every string (no string has a
\* several-character element).
None == <<"None">>

IsSpace(c) == c = " "

RECURSIVE LStrip(_)
LStrip(s) == IF s # <<>> /\ IsSpace(Head(s)) THEN LStrip(Tail(s)) ELSE s

RECURSIVE RStrip(_)
RStrip(s) ==
    IF s # <<>> /\ IsSpace(s[Len(s)]) THEN RStrip(SubSeq(s, 1, Len(s) - 1)) ELSE s

\* Mutant of Strip: the whitespace at the end is kept.
StripLeftOnly(s) == LStrip(s)

\* str.strip()
Strip(s) == RStrip(LStrip(s))

\* `v or ""`
OrEmpty(v) == IF v = None THEN <<>> ELSE v

\* Code points of the characters the model uses (the order sorted() uses).
Ord(c) ==
    CASE c = " " -> 32
      [] c = "T" -> 84
      [] c = "a" -> 97
      [] c = "b" -> 98
      [] c = "x" -> 120
      [] c = "y" -> 121
      [] OTHER -> 0

\* s < t for Python strings
RECURSIVE StrLess(_, _)
StrLess(s, t) ==
    IF t = <<>> THEN FALSE
    ELSE IF s = <<>> THEN TRUE
    ELSE IF Head(s) # Head(t) THEN Ord(Head(s)) < Ord(Head(t))
    ELSE StrLess(Tail(s), Tail(t))

\* sorted(S) for a set of strings
RECURSIVE Sorted(_)
Sorted(S) ==
    IF S = {} THEN <<>>
    ELSE LET m == CHOOSE a \in S : \A b \in S \ {a} : StrLess(a, b)
         IN  <<m>> \o Sorted(S \ {m})

Range(s) == {s[i] : i \in 1..Len(s)}

Min(a, b) == IF a < b THEN a ELSE b
Max(a, b) == IF a > b THEN a ELSE b

RECURSIVE Pow2(_)
Pow2(n) == IF n <= 0 THEN 1 ELSE 2 * Pow2(n - 1)

\* ---------------------------------------------------------------- inputs
\* What the user types into the query box.
RawQueries == { <<>>, <<" ">>, <<"a">>, <<" ", "a", " ">>, <<"b">> }

\* Objects the provider puts in web.results: with a URL (padded with
\* whitespace, or not), and without one.
PX == [title |-> <<"T", " ">>, url |-> <<" ", "x">>]
PY == [title |-> None,         url |-> <<"y">>]
PN == [title |-> <<"T">>,      url |-> None]

Payload(results, altered) == [results |-> results, altered |-> altered]

\* The JSON documents of the 200 responses: no result, one, two with a
\* spelling correction (query.altered), one without a URL, a URL twice.
Payloads ==
    { Payload(<<>>, None),
      Payload(<<PX>>, None),
      Payload(<<PX, PY>>, <<"a">>),
      Payload(<<PN, PY>>, None),
      Payload(<<PX, PX>>, None) }

\* The Retry-After header of a 429 response: absent, not a number, or a
\* number of tenths of a second.
RetryAfterHeaders ==
    { [kind |-> "absent", val |-> 0],
      [kind |-> "text",   val |-> 0],
      [kind |-> "num",    val |-> 10],
      [kind |-> "num",    val |-> 50] }

\* Responses with an error status other than 429: the status and the length
\* of the body
HttpErrorResponses ==
    { [status |-> 404, len |-> 12], [status |-> 500, len |-> 1000] }

\* --------------------------------------------------------------- state
VARIABLES
    query,          \* App.query (reactive)
    current_query,  \* App.current_query
    page,           \* App.page (reactive)
    hidden_count,   \* App.hidden_count (reactive)
    last_altered,   \* App.last_altered (reactive)
    lv,             \* the results of the ResultItems of the ListView, in order
    status,         \* the text of the status bar
    clicked,        \* App.clicked, the in-memory set of clicked URLs
    file,           \* clicked.json
    log,            \* click_log.csv: whether it exists, and its last row
    env_key,        \* whether BRAVE_API_KEY is set
    threads,        \* the search threads, by slot
    all_results,    \* all_results of the _search_thread that filled the list
    opened,         \* history: <<current_query, url>> of this process's opens
    call,           \* one call of brave_search, followed attempt by attempt
    opening,        \* open_result, followed statement by statement
    shown           \* history: query and page of the _search_thread that
                    \* filled the list

vars == <<query, current_query, page, hidden_count, last_altered, lv, status,
          clicked, file, log, env_key, threads, all_results, opened, call,
          opening, shown>>

session_vars == <<query, current_query, page, hidden_count, last_altered, lv,
                  status, clicked, file, log, threads, all_results, opened,
                  opening, shown>>

\* ------------------------------------------------------------ Brave API
NoErr == [type |-> "none", msg |-> "", status |-> 0, excerpt |-> 0]

MissingKeyError ==
    [type |-> "BraveSearchError", msg |-> "Missing BRAVE_API_KEY (export or .env)",
     status |-> 0, excerpt |-> 0]

RateLimitedError ==
    [type |-> "BraveSearchError", msg |-> "Rate limited (429)",
     status |-> 429, excerpt |-> 0]

\* BraveSearchError(f"HTTP {resp.status_code}: {resp.text[:400]}")
HttpError(resp) ==
    [type |-> "BraveSearchError", msg |-> "HTTP",
     status |-> resp.status, excerpt |-> Min(resp.len, ExcerptLen)]

\* requests.get raised (connection error, timeout)
TransportError ==
    [type |-> "RequestException", msg |-> "transport", status |-> 0, excerpt |-> 0]

NoHeader == [kind |-> "absent", val |-> 0]
NoPayload == [results |-> <<>>, altered |-> <<"no payload">>]

\* retry_if_exception_type((requests.RequestException, BraveSearchError))
RetryIf(e) == e.type \in {"RequestException", "BraveSearchError"}

\* Mutant of StopAfter: the attempt that reaches the limit is retried once more.
StopAfterOffByOne(attempt_number) == attempt_number > StopAfterAttempt

\* stop_after_attempt(3): stop once this many attempts have been made
StopAfter(attempt_number) == attempt_number >= StopAfterAttempt

\* wait_exponential(multiplier=0.7, min=0.7, max=4) after attempt n
WaitExponential(n) ==
    Max(Max(0, WaitMin), Min(WaitMultiplier * Pow2(n - 1), WaitMax))

\* Mutant of RetryAfterSleep: the Retry-After header is read and not slept on.
RetryAfterIgnored(ra) == 0

\* The time.sleep(float(ra)) of the 429 branch: nothing when the header is
\* absent or float() raises.
RetryAfterSleep(ra) == IF ra.kind = "num" /\ ra.val >= 0 THEN ra.val ELSE 0

\* What one execution of brave_search's body comes to: raised tells whether it
\* raised err (after sleeping inner inside the function) or returned payload;
\* sent counts its HTTP requests.
Outcome(raised, err, ra, inner, sent, payload) ==
    [raised |-> raised, err |-> err, ra |-> ra, inner |-> inner, sent |-> sent,
     payload |-> payload]

\* The body of brave_search, for every answer of the network.
BodyOutcomes(has_key) ==
    IF ~has_key
    THEN {Outcome(TRUE, MissingKeyError, NoHeader, 0, 0, NoPayload)}
    ELSE {Outcome(TRUE, TransportError, NoHeader, 0, 1, NoPayload)}
         \cup {Outcome(TRUE, RateLimitedError, ra, RetryAfterSleep(ra), 1, NoPayload) :
                 ra \in RetryAfterHeaders}
         \cup {Outcome(TRUE, HttpError(resp), NoHeader, 0, 1, NoPayload) :
                 resp \in HttpErrorResponses}
         \cup {Outcome(FALSE, NoErr, NoHeader, 0, 1, payload) : payload \in Payloads}

\* The state of a call of brave_search(query, count, page): the request
\* parameters, tenacity's attempt number, the requests sent so far, the
\* exception of the last failed attempt with its Retry-After header, the time
\* slept since that attempt's response, and the payload once returned.
NewCall(q, count, p) ==
    [pc |-> "run", q |-> q, count |-> Max(MinCount, Min(count, MaxCount)),
     offset |-> Max(p, 0), attempt |-> 1, requests |-> 0, err |-> NoErr,
     ra |-> NoHeader, slept |-> 0, payload |-> NoPayload]

\* The retry decorator around one execution of the body with outcome o.
AfterAttempt(c, o) ==
    IF ~o.raised
    THEN [c EXCEPT !.pc = "returned", !.requests = c.requests + o.sent,
                   !.payload = o.payload]
    ELSE IF RetryIf(o.err) /\ ~StopAfter(c.attempt)
    THEN [c EXCEPT !.attempt = c.attempt + 1, !.requests = c.requests + o.sent,
                   !.err = o.err, !.ra = o.ra,
                   !.slept = o.inner + WaitExponential(c.attempt)]
    ELSE [c EXCEPT !.pc = "raised", !.requests = c.requests + o.sent,
                   !.err = o.err, !.ra = o.ra, !.slept = o.inner]

\* The ways a call in state c can end.
RECURSIVE Finals(_, _)
Finals(c, has_key) ==
    IF c.pc # "run" THEN {c}
    ELSE UNION {Finals(AfterAttempt(c, o), has_key) : o \in BodyOutcomes(has_key)}

\* What brave_search gives its caller: the payload, or the exception.
Result(c) ==
    IF c.pc = "returned" THEN [err |-> NoErr, payload |-> c.payload]
    ELSE [err |-> c.err, payload |-> NoPayload]

ResultsWithKey == {Result(c) : c \in Finals(NewCall(<<"a">>, CountPerPage, 0), TRUE)}
ResultsWithoutKey == {Result(c) : c \in Finals(NewCall(<<"a">>, CountPerPage, 0), FALSE)}

\* brave_search(query=query, count=self.count_per_page, page=page), start to end
brave_search(has_key) == IF has_key THEN ResultsWithKey ELSE ResultsWithoutKey

\* _extract_web_results
_extract_web_results(payload) ==
    [i \in 1..Len(payload.results) |->
        [title |-> Strip(OrEmpty(payload.results[i].title)),
         url   |-> Strip(OrEmpty(payload.results[i].url))]]

\* Mutant of Filtered: the test against the clicked set is left out.
FilteredByUrlOnly(rs, clk) == SelectSeq(rs, LAMBDA r : r.url # <<>>)

\* [r for r in rs if r.url and r.url not in clk]
RECURSIVE Filtered(_, _)
Filtered(rs, clk) ==
    IF rs = <<>> THEN <<>>
    ELSE (IF Head(rs).url # <<>> /\ Head(rs).url \notin clk THEN <<Head(rs)>> ELSE <<>>)
         \o Filtered(Tail(rs), clk)

\* Mutant of Hidden: only the results whose URL is in the clicked set count.
HiddenClickedOnly(all, flt) ==
    Cardinality({i \in 1..Len(all) : all[i].url \in clicked})

\* hidden = len(all_results) - len(filtered)
Hidden(all, flt) == Len(all) - Len(flt)

\* ------------------------------------------------------------ persistence
NoFile == [kind |-> "missing", items |-> <<>>]
\* A file json.loads cannot parse (an empty or cut-off document)
Garbage == [kind |-> "garbage", items |-> <<>>]
\* A JSON array, of strings or of numbers
ArrayFile(items) == [kind |-> "array", items |-> items]
\* A JSON string, by its characters
StringFile(chars) == [kind |-> "string", items |-> chars]
\* A JSON number
NumberFile == [kind |-> "number", items |-> <<>>]
\* A JSON object, by its keys
ObjectFile(keys) == [kind |-> "object", items |-> keys]

\* The numbers of a JSON array, kept apart from every string as None is
JsonNumbers == { <<"#1">>, <<"#2">> }
IsNumber(e) == e \in JsonNumbers

\* sorted(clk) raises TypeError on a set that mixes str and int
Sortable(clk) == \A a \in clk, b \in clk : IsNumber(a) = IsNumber(b)

\* Mutant of _load_clicked: the file is never read.
LoadNothing(f) == {}

\* _load_clicked: set(json.loads(text)), or set() without a file or on any
\* exception.  set() of a list is its elements, of a str its characters, of
\* a dict its keys; set() of a number raises TypeError, json.loads of an
\* unparseable text raises JSONDecodeError.
_load_clicked(f) ==
    CASE f.kind = "array"  -> Range(f.items)
      [] f.kind = "string" -> {<<c>> : c \in Range(f.items)}
      [] f.kind = "object" -> Range(f.items)
      [] OTHER             -> {}

\* What clicked.json holds after _save_clicked(clk): the sorted array when
\* write_text succeeds; on an exception the old file (open failed) or a
\* truncated one (the write failed after open truncated it).
SaveOutcomes == {"ok", "unchanged", "truncated"}

\* Mutant of _save_clicked: nothing is written, and no exception is raised.
SaveWritesNothing(clk, old, outcome) == IF outcome = "truncated" THEN Garbage ELSE old

\* _save_clicked: an exception of sorted() comes before the file is opened.
_save_clicked(clk, old, outcome) ==
    CASE ~Sortable(clk)        -> old
      [] outcome = "ok"        -> ArrayFile(Sorted(clk))
      [] outcome = "unchanged" -> old
      [] OTHER                 -> Garbage

NoRow == [query |-> <<"query">>, title |-> <<"title">>, url |-> <<"url">>]
NoLog == [exists |-> FALSE, last |-> NoRow]

\* _log_click, the timestamp column left out: the file is only ever appended
\* to, so it is kept as its last row; written is FALSE when the open or a
\* write raises.
_log_click(old, q, title, url, written) ==
    IF ~written THEN old
    ELSE [exists |-> TRUE, last |-> [query |-> q, title |-> title, url |-> url]]

\* -------------------------------------------------------------- session
Status(kind) == [kind |-> kind, err |-> NoErr]
\* f"[error] {e}"
ErrorStatus(e) == [kind |-> "error", err |-> e]

RemoveAt(s, i) == SubSeq(s, 1, i - 1) \o SubSeq(s, i + 1, Len(s))

Slots == 1..MaxThreads

IdleThread == [pc |-> "idle", query |-> <<>>, page |-> 0]

FreeSlots == {w \in Slots : threads[w].pc = "idle"}

\* threading.Thread(target=self._search_thread, args=(query, page)).start()
StartThread(q, p) ==
    LET w == CHOOSE s \in FreeSlots : \A t \in FreeSlots : s <= t IN
    [threads EXCEPT ![w] = [pc |-> "run", query |-> q, page |-> p]]

\* No search has filled the list.
NoShown == [query |-> <<>>, page |-> 0]

\* _populate_results(results, hidden, altered), run on the main thread
_populate_results(results, hidden, altered) ==
    /\ hidden_count' = hidden
    /\ last_altered' = OrEmpty(altered)
    /\ lv' = results
    /\ status' = IF results = <<>>
                 THEN (IF hidden > 0 THEN Status("AllHidden") ELSE Status("NoResults"))
                 ELSE Status("Showing")

\* Mutant of _search_thread: the exception of brave_search is not caught, the
\* thread dies with it and the status bar is left as it was.
SearchThreadDiesOnError(w) ==
    /\ threads[w].pc = "run"
    /\ \E r \in brave_search(env_key) :
          IF r.err = NoErr
          THEN LET all == _extract_web_results(r.payload)
                   flt == Filtered(all, clicked)
               IN  /\ _populate_results(flt, Hidden(all, flt), r.payload.altered)
                   /\ all_results' = all
                   /\ shown' = [query |-> threads[w].query, page |-> threads[w].page]
          ELSE UNCHANGED <<status, hidden_count, last_altered, lv, all_results,
                           shown>>
    /\ threads' = [threads EXCEPT ![w] = IdleThread]
    /\ UNCHANGED <<query, current_query, page, clicked, file, log, env_key,
                   opened, call, opening>>

\* _search_thread(query, page) of thread w, with the callback it hands over
_search_thread(w) ==
    /\ threads[w].pc = "run"
    /\ \E r \in brave_search(env_key) :
          IF r.err = NoErr
          THEN LET all == _extract_web_results(r.payload)
                   flt == Filtered(all, clicked)
               IN  /\ _populate_results(flt, Hidden(all, flt), r.payload.altered)
                   /\ all_results' = all
                   /\ shown' = [query |-> threads[w].query, page |-> threads[w].page]
          ELSE /\ status' = ErrorStatus(r.err)
               /\ UNCHANGED <<hidden_count, last_altered, lv, all_results, shown>>
    /\ threads' = [threads EXCEPT ![w] = IdleThread]
    /\ UNCHANGED <<query, current_query, page, clicked, file, log, env_key,
                   opened, call, opening>>

\* do_search(query, page)
do_search(q, p) ==
    /\ FreeSlots # {}
    /\ current_query' = q
    /\ page' = p
    /\ status' = Status("Searching")
    /\ threads' = StartThread(q, p)

\* on_input_submitted
on_input_submitted(value) ==
    LET q == Strip(value) IN
    /\ query' = q
    /\ IF q # <<>>
       THEN do_search(q, 0)
       ELSE UNCHANGED <<current_query, page, status, threads>>
    /\ UNCHANGED <<hidden_count, last_altered, lv, clicked, file, log, env_key,
                   all_results, opened, call,
                   opening, shown>>

\* action_next_page
action_next_page ==
    /\ current_query # <<>>
    /\ page < MaxPage
    /\ do_search(current_query, page + 1)
    /\ UNCHANGED <<query, hidden_count, last_altered, lv, clicked, file, log,
                   env_key, all_results, opened, call,
                   opening, shown>>

\* Mutant of action_prev_page: the test for page 0 is left out.
PrevPageBelowZero ==
    /\ current_query # <<>>
    /\ do_search(current_query, page - 1)
    /\ UNCHANGED <<query, hidden_count, last_altered, lv, clicked, file, log,
                   env_key, all_results, opened, call,
                   opening, shown>>

\* action_prev_page
action_prev_page ==
    /\ ~(current_query = <<>> \/ page = 0)
    /\ do_search(current_query, page - 1)
    /\ UNCHANGED <<query, hidden_count, last_altered, lv, clicked, file, log,
                   env_key, all_results, opened, call,
                   opening, shown>>

\* Mutant of record_and_save: the URL is kept in memory only when it was saved.
RecordOnlyIfSaved(url, outcome) ==
    /\ clicked' = IF outcome = "ok" THEN clicked \cup {url} ELSE clicked
    /\ file' = _save_clicked(clicked \cup {url}, file, outcome)

\* self.clicked.add(url); _save_clicked(self.clicked)
record_and_save(url, outcome) ==
    /\ clicked' = clicked \cup {url}
    /\ file' = _save_clicked(clicked', file, outcome)

\* self.current_query or self.query or ""
LogQuery == IF current_query # <<>> THEN current_query ELSE query

\* open_result(result, source_item): pos is source_item's place in the
\* ListView (0: no source item); ok, written, outcome and removed are what the
\* browser launch, the log append, the save and lv.remove(source_item) come to.
open_result(result, pos, ok, written, outcome, removed) ==
    /\ result.url # <<>>
    /\ log' = _log_click(log, LogQuery, result.title, result.url, written)
    /\ record_and_save(result.url, outcome)
    /\ lv' = IF pos > 0 /\ removed THEN RemoveAt(lv, pos) ELSE lv
    /\ status' = Status(IF ok THEN "Opened" ELSE "Tried to open")
    /\ opened' = opened \cup {<<current_query, result.url>>}
    /\ UNCHANGED <<query, current_query, page, hidden_count, last_altered,
                   env_key, threads, all_results, call, opening, shown>>

\* action_open_selected: Enter on the selected item
action_open_selected ==
    \E i \in 1..Len(lv), ok \in BOOLEAN, written \in BOOLEAN,
       outcome \in SaveOutcomes, removed \in BOOLEAN :
        open_result(lv[i], i, ok, written, outcome, removed)

\* ResultItem.on_click and on_open_result, the OpenResult message handled
\* before any other event: message.sender is the ResultItem, or the lookup
\* raises and source is None, as the installed Textual has it.
on_open_result ==
    \E i \in 1..Len(lv), sender \in BOOLEAN, ok \in BOOLEAN, written \in BOOLEAN,
       outcome \in SaveOutcomes, removed \in BOOLEAN :
        open_result(lv[i], IF sender THEN i ELSE 0, ok, written, outcome, removed)

\* No open_result is running; done is the statements the last one ran, in
\* order.  While one runs, item is the place in the ListView of the item that
\* was selected or clicked, and pos that of source_item (0: None).
NoOpening ==
    [pc |-> "idle", result |-> [title |-> <<>>, url |-> <<>>], item |-> 0,
     pos |-> 0, ok |-> FALSE, done |-> <<>>]

\* One statement of open_result has run: the next one is at pc.
Ran(step, pc) ==
    [opening EXCEPT !.pc = pc, !.done = Append(opening.done, step)]

\* open_result(result, source_item) is called, by action_open_selected
\* (source_item the selected item) or by on_open_result (source_item the
\* sender, or None): the test of result.url.
OpenStart ==
    /\ opening.pc = "idle"
    /\ \E i \in 1..Len(lv), sender \in BOOLEAN :
          /\ lv[i].url # <<>>
          /\ opening' = [pc |-> "browser", result |-> lv[i], item |-> i,
                         pos |-> IF sender THEN i ELSE 0, ok |-> FALSE,
                         done |-> <<>>]
    /\ UNCHANGED <<query, current_query, page, hidden_count, last_altered, lv,
                   status, clicked, file, log, env_key, threads, all_results,
                   opened, call, shown>>

\* ok = _open_in_browser(result.url): every exception is caught inside
OpenBrowser ==
    /\ opening.pc = "browser"
    /\ \E ok \in BOOLEAN :
          opening' = [Ran("browser", "log") EXCEPT !.ok = ok]
    /\ UNCHANGED <<query, current_query, page, hidden_count, last_altered, lv,
                   status, clicked, file, log, env_key, threads, all_results,
                   opened, call, shown>>

\* _log_click(ts_iso, self.current_query or self.query or "", title, url)
OpenLog ==
    /\ opening.pc = "log"
    /\ \E written \in BOOLEAN :
          /\ log' = _log_click(log, LogQuery, opening.result.title,
                               opening.result.url, written)
          /\ opening' = Ran("log", "add")
    /\ UNCHANGED <<query, current_query, page, hidden_count, last_altered, lv,
                   status, clicked, file, env_key, threads, all_results,
                   opened, call, shown>>

\* Mutant of OpenAdd: the set is saved later, not by this open.
OpenAddNoSave ==
    /\ opening.pc = "add"
    /\ clicked' = clicked \cup {opening.result.url}
    /\ opening' = Ran("add", "remove")
    /\ UNCHANGED <<query, current_query, page, hidden_count, last_altered, lv,
                   status, file, log, env_key, threads, all_results, opened, call,
                   shown>>

\* self.clicked.add(result.url)
OpenAdd ==
    /\ opening.pc = "add"
    /\ clicked' = clicked \cup {opening.result.url}
    /\ opening' = Ran("add", "save")
    /\ UNCHANGED <<query, current_query, page, hidden_count, last_altered, lv,
                   status, file, log, env_key, threads, all_results, opened, call,
                   shown>>

\* Mutant of OpenSave: the exception of a failed write is not caught, and ends
\* open_result.
OpenSaveRaises ==
    /\ opening.pc = "save"
    /\ \E outcome \in SaveOutcomes :
          /\ file' = _save_clicked(clicked, file, outcome)
          /\ opening' = Ran("save", IF outcome = "ok" THEN "remove" ELSE "idle")
    /\ UNCHANGED <<query, current_query, page, hidden_count, last_altered, lv,
                   status, clicked, log, env_key, threads, all_results,
                   opened, call, shown>>

\* _save_clicked(self.clicked)
OpenSave ==
    /\ opening.pc = "save"
    /\ \E outcome \in SaveOutcomes :
          /\ file' = _save_clicked(clicked, file, outcome)
          /\ opening' = Ran("save", "remove")
    /\ UNCHANGED <<query, current_query, page, hidden_count, last_altered, lv,
                   status, clicked, log, env_key, threads, all_results,
                   opened, call, shown>>

\* try: if source_item is not None: lv.remove(source_item); except: pass
OpenRemove ==
    /\ opening.pc = "remove"
    /\ \E removed \in BOOLEAN :
          /\ lv' = IF opening.pos > 0 /\ removed THEN RemoveAt(lv, opening.pos)
                   ELSE lv
          /\ opening' = Ran("remove", "status")
    /\ UNCHANGED <<query, current_query, page, hidden_count, last_altered,
                   status, clicked, file, log, env_key, threads, all_results,
                   opened, call, shown>>

\* self._set_status(f"{'Opened' if ok else 'Tried to open'}: ..."), and return
OpenStatus ==
    /\ opening.pc = "status"
    /\ status' = Status(IF opening.ok THEN "Opened" ELSE "Tried to open")
    /\ opened' = opened \cup {<<current_query, opening.result.url>>}
    /\ opening' = [NoOpening EXCEPT !.done = opening.done]
    /\ UNCHANGED <<query, current_query, page, hidden_count, last_altered, lv,
                   clicked, file, log, env_key, threads, all_results, call,
                   shown>>

\* The process ends (quit, Ctrl+C, a crash) and the program is started again:
\* the daemon threads die with it, __init__ loads clicked.json.
Restart ==
    /\ query' = <<>>
    /\ current_query' = <<>>
    /\ page' = 0
    /\ hidden_count' = 0
    /\ last_altered' = <<>>
    /\ lv' = <<>>
    /\ status' = Status("")
    /\ clicked' = _load_clicked(file)
    /\ threads' = [w \in Slots |-> IdleThread]
    /\ all_results' = <<>>
    /\ opened' = {}
    /\ opening' = NoOpening
    /\ shown' = NoShown
    /\ UNCHANGED <<file, log, env_key, call>>

\* The clicked.json files a first start may find
InitialFiles == { NoFile, Garbage, ArrayFile(<< <<"x">> >>) }

NoCall == [NewCall(<<>>, CountPerPage, 0) EXCEPT !.pc = "none"]

\* The state after __init__ and compose
InitSession ==
    /\ query = <<>>
    /\ current_query = <<>>
    /\ page = 0
    /\ hidden_count = 0
    /\ last_altered = <<>>
    /\ lv = <<>>
    /\ status = Status("")
    /\ file \in InitialFiles
    /\ clicked = _load_clicked(file)
    /\ log = NoLog
    /\ env_key \in BOOLEAN
    /\ threads = [w \in Slots |-> IdleThread]
    /\ all_results = <<>>
    /\ opened = {}
    /\ opening = NoOpening
    /\ shown = NoShown

Init == InitSession /\ call = NoCall

\* ---------------------------------------- the session with its click store
\* The user submits a query once the search before it has ended.
Next ==
    \/ \E value \in RawQueries : FreeSlots = Slots /\ on_input_submitted(value)
    \/ \E w \in Slots : _search_thread(w)
    \/ action_open_selected
    \/ on_open_result
    \/ Restart

Spec == Init /\ [][Next]_vars

\* ------------------------------- the session with concurrent searches
NextPaging ==
    \/ \E value \in RawQueries : on_input_submitted(value)
    \/ action_next_page
    \/ action_prev_page
    \/ \E w \in Slots : _search_thread(w)

SpecPaging == Init /\ [][NextPaging]_vars

\* Every search thread runs to its end: the requests have a timeout, the
\* sleeps are finite, the attempts are at most three, and the main thread
\* runs the callback handed to it.
SpecPagingFair == SpecPaging /\ \A w \in Slots : WF_vars(_search_thread(w))

\* ------------------------- the session, open_result statement by statement
\* The handlers of the main thread run one after the other: no submission and
\* no callback of a search thread comes while open_result runs.
NextOpen ==
    \/ /\ opening.pc = "idle"
       /\ FreeSlots = Slots
       /\ \E value \in RawQueries : on_input_submitted(value)
    \/ opening.pc = "idle" /\ \E w \in Slots : _search_thread(w)
    \/ OpenStart
    \/ OpenBrowser
    \/ OpenLog
    \/ OpenAdd
    \/ OpenSave
    \/ OpenRemove
    \/ OpenStatus

SpecOpen == Init /\ [][NextOpen]_vars

\* ------------------------------------------ the session, query by query
\* What the user types, with capitals and with whitespace before, after and
\* between the words.
TypedQueries ==
    { <<>>, <<" ">>, <<"a">>, <<"A">>, <<" ", "a">>, <<"a", " ">>,
      <<" ", "a", " ", " ">>, <<"a", " ", "a">>, <<"a", " ", " ", "a">>,
      <<"A", " ", "a">>, <<" ", "a", " ", "A", " ">> }

NextNormalize ==
    \/ \E value \in TypedQueries : FreeSlots = Slots /\ on_input_submitted(value)
    \/ \E w \in Slots : _search_thread(w)

SpecNormalize == Init /\ [][NextNormalize]_vars

\* ------------------------------------------------- the click store alone
\* URLs to record: the two of the payloads, and two more for sorted()
StoreUrls == { <<"x">>, <<"y">>, <<"x", "y">>, <<"a">> }

\* The two statements of open_result that record a URL and save the set
Record ==
    /\ \E u \in StoreUrls, outcome \in SaveOutcomes : record_and_save(u, outcome)
    /\ UNCHANGED <<query, current_query, page, hidden_count, last_altered, lv,
                   status, log, env_key, threads, all_results, opened, call,
                   opening, shown>>

NextStore == Record \/ Restart

SpecStore == Init /\ [][NextStore]_vars

\* ------------------------------------- the click store, from any file
\* The clicked.json files that are not an array of strings: a JSON string, a
\* number, an array of numbers, an object.
OtherFiles ==
    { StringFile(<<"x", "y">>), NumberFile,
      ArrayFile(<< <<"#1">>, <<"#2">> >>), ObjectFile(<< <<"a">> >>) }

\* The state after __init__, whatever clicked.json holds
InitLoad ==
    /\ query = <<>>
    /\ current_query = <<>>
    /\ page = 0
    /\ hidden_count = 0
    /\ last_altered = <<>>
    /\ lv = <<>>
    /\ status = Status("")
    /\ file \in InitialFiles \cup OtherFiles
    /\ clicked = _load_clicked(file)
    /\ log = NoLog
    /\ env_key \in BOOLEAN
    /\ threads = [w \in Slots |-> IdleThread]
    /\ all_results = <<>>
    /\ opened = {}
    /\ call = NoCall
    /\ opening = NoOpening
    /\ shown = NoShown

SpecLoad == InitLoad /\ [][NextStore]_vars

\* ------------------------------------------- one call of brave_search
\* One execution of the body of brave_search under the retry decorator.
Attempt ==
    /\ call.pc = "run"
    /\ \E o \in BodyOutcomes(env_key) : call' = AfterAttempt(call, o)
    /\ UNCHANGED <<session_vars, env_key>>

\* The searches _search_thread can ask for
InitCall ==
    /\ InitSession
    /\ \E q \in {Strip(v) : v \in RawQueries} \ {<<>>}, p \in 0..MaxPage :
          call = NewCall(q, CountPerPage, p)

NextCall == Attempt

SpecCall == InitCall /\ [][NextCall]_vars

\* Every sleep and every request (timeout=15) of the call ends.
SpecCallFair == SpecCall /\ WF_vars(Attempt)

\* ================================================================ claims
Urls(rs) == {rs[i].url : i \in 1..Len(rs)}

\* The list, hidden_count and all_results are those of the last applied
\* search: no open, submission or error has come since.
ResultsApplied == status.kind \in {"Showing", "NoResults", "AllHidden"}

OpenedUrls == {pr[2] : pr \in opened}

\* C1, as stated: a URL opened under another query only, and not under the
\* query searched for, is still in the visible list of that search.
C1_PerQueryMemory ==
    ResultsApplied =>
        \A i \in 1..Len(all_results) :
            LET u == all_results[i].url IN
            (/\ u # <<>>
             /\ u \in OpenedUrls
             /\ <<current_query, u>> \notin opened)
            => all_results[i] \in Range(lv)

\* C1, amended: the click memory is shared by all queries: a URL opened in
\* this process under any query is left out of the visible list of every
\* later search, whatever its query.
C1_SharedMemory ==
    ResultsApplied =>
        \A i \in 1..Len(all_results) :
            all_results[i].url \in OpenedUrls => all_results[i].url \notin Urls(lv)

\* A search for "b" has hidden x, opened under "a" only.
C1_Witness ==
    /\ ResultsApplied
    /\ current_query = <<"b">>
    /\ opened = {<< <<"a">>, <<"x">> >>}
    /\ <<"x">> \in Urls(all_results)
    /\ <<"x">> \notin Urls(lv)

\* C2, as stated: results of a thread started for a (query, page) that is no
\* longer the session's change neither the list, nor the hidden count, nor
\* the altered-query hint.
C2_StaleDiscarded ==
    [][\A w \in Slots :
          (/\ _search_thread(w)
           /\ (threads[w].query # current_query \/ threads[w].page # page))
          => UNCHANGED <<lv, hidden_count, last_altered>>]_vars

\* C3, as stated: without a credential the call raises on its first and only
\* attempt, with no request sent and no wait.
C3_FailFast ==
    ~env_key =>
        /\ call.attempt = 1
        /\ call.requests = 0
        /\ call.slept = 0
        /\ call.pc # "run" => (call.pc = "raised" /\ call.err = MissingKeyError)

\* C4, as stated: an answer with a status >= 400 other than 429 ends the call
\* at once with the status and the excerpt, the request not being repeated.
C4_HttpErrorNotRetried ==
    call.err.msg = "HTTP" =>
        /\ call.pc = "raised"
        /\ call.requests = call.attempt
        /\ call.err.status >= 400
        /\ call.err.excerpt <= ExcerptLen

C5_Safety ==
    /\ call.attempt <= 3
    /\ call.requests <= 3
    /\ call.pc = "raised" => (call.attempt = 3 /\ call.err # NoErr)
    /\ call.pc = "returned" =>
          /\ call.payload \in Payloads
          /\ call.requests = call.attempt
          /\ call.attempt = 1 <=> call.err = NoErr

\* C5: a call makes at most 3 attempts and ends: it returns the payload of its
\* first successful attempt (the attempts before it having failed), or raises
\* the last error once the third attempt has failed.
C5_AtMostThreeAttempts ==
    /\ [] C5_Safety
    /\ <>(call.pc \in {"returned", "raised"})

\* Three attempts have failed and the call has raised.
C5_Witness ==
    /\ call.pc = "raised"
    /\ call.attempt = 3
    /\ call.requests = 3
    /\ call.err = TransportError

\* C6: after a 429 with Retry-After d the next attempt comes no sooner than d
\* after the response, and when that attempt is answered 200 the call returns
\* its payload, two requests having been sent.
C6_RetryAfterHonoured ==
    /\ (/\ call.pc \in {"run", "returned"}
        /\ call.attempt >= 2
        /\ call.err = RateLimitedError
        /\ call.ra.kind = "num")
       => call.slept >= call.ra.val
    /\ (/\ call.pc = "returned"
        /\ call.attempt = 2
        /\ call.err = RateLimitedError)
       => (call.requests = 2 /\ call.payload \in Payloads)

\* A 429 with Retry-After: 5 s, then a 200.
C6_Witness ==
    /\ call.pc = "returned"
    /\ call.attempt = 2
    /\ call.err = RateLimitedError
    /\ call.ra = [kind |-> "num", val |-> 50]
    /\ call.requests = 2

\* C7, as stated: a result without a URL is in the visible list and is not
\* counted as hidden.
C7_UrllessKept ==
    ResultsApplied =>
        /\ \A i \in 1..Len(all_results) :
              all_results[i].url = <<>> => all_results[i] \in Range(lv)
        /\ hidden_count <= Cardinality({i \in 1..Len(all_results) :
                                           all_results[i].url # <<>>})

\* Nothing was opened since clicked.json, a JSON array, was loaded.
LoadedFromArray == ResultsApplied /\ opened = {} /\ file.kind = "array"

\* C8, as stated: the URLs of a flat JSON array loaded at start are not
\* hidden for any query.
C8_LegacyNeverHides ==
    LoadedFromArray =>
        \A i \in 1..Len(all_results) :
            all_results[i].url \in Range(file.items) => all_results[i] \in Range(lv)

\* C8, amended: the URLs of a flat JSON array loaded at start are hidden for
\* every query.
C8_ArrayHidesForAll ==
    LoadedFromArray =>
        \A i \in 1..Len(all_results) :
            all_results[i].url \in Range(file.items)
                => all_results[i].url \notin Urls(lv)

\* The array ["x"] found at the first start, a search that returned x, and
\* no click ever made.
C8_Witness ==
    /\ LoadedFromArray
    /\ log = NoLog
    /\ file = ArrayFile(<< <<"x">> >>)
    /\ <<"x">> \in Urls(all_results)
    /\ <<"x">> \notin Urls(lv)

\* C9: once a URL is recorded and the save succeeds, a load of the saved file
\* gives the recorded set, the URL in it, and the filter of a session started
\* from that file hides the URL in every result list.
C9_SaveLoadRoundTrip ==
    [][\A u \in StoreUrls :
          record_and_save(u, "ok") =>
              /\ u \in _load_clicked(file')
              /\ _load_clicked(file') = clicked'
              /\ \A p \in Payloads :
                    u \notin Urls(Filtered(_extract_web_results(p), _load_clicked(file')))]_vars

\* Three URLs recorded and saved, in sorted order in the file.
C9_Witness ==
    /\ clicked = {<<"x">>, <<"y">>, <<"x", "y">>}
    /\ file = ArrayFile(<< <<"x">>, <<"x", "y">>, <<"y">> >>)

\* C10: the page index is never below zero, and it changes only while there
\* is a current query.
C10_PageIndex ==
    /\ [](page >= 0)
    /\ [][page' # page => current_query # <<>>]_vars

\* The second page of a query, reached by next-page.
C10_Witness ==
    /\ page = 1
    /\ current_query = <<"a">>
    /\ status = Status("Searching")

\* A search thread ends in this step.
ThreadEnds(w) == threads[w].pc = "run" /\ threads'[w].pc = "idle"

\* The submission of a non-empty query is taken in this state.
SubmissionAccepted ==
    \A value \in RawQueries :
        Strip(value) # <<>> => ENABLED on_input_submitted(value)

\* C11: every started search ends, with its results applied or with an error
\* in the status bar; while an error is shown the submission of a non-empty
\* query is accepted, and such a submission starts a search for the stripped
\* query at page 0.
C11_FailureNotFatal ==
    /\ \A w \in Slots : (threads[w].pc = "run") ~> (threads[w].pc = "idle")
    /\ [][\A w \in Slots :
            ThreadEnds(w) => (ResultsApplied' \/ status'.kind = "error")]_vars
    /\ [](status.kind = "error" => SubmissionAccepted)
    /\ [][\A value \in RawQueries :
            (/\ status.kind = "error"
             /\ Strip(value) # <<>>
             /\ on_input_submitted(value))
            => /\ page' = 0
               /\ current_query' = Strip(value)
               /\ status' = Status("Searching")
               /\ \E w \in Slots :
                     /\ threads[w].pc = "idle"
                     /\ threads'[w] = [pc |-> "run", query |-> Strip(value),
                                       page |-> 0]]_vars

\* The search for the second page of "a" has ended with the HTTP 500 error in
\* the status bar, and no search is in flight.
C11_Witness ==
    /\ status = ErrorStatus(HttpError([status |-> 500, len |-> 1000]))
    /\ current_query = <<"a">>
    /\ page = 1
    /\ FreeSlots = Slots

\* C12: for every search whose results are applied, the hidden count and the
\* length of the visible list add up to the length of the raw result list,
\* whatever the list (a URL twice, a record without a URL) and the click set.
C12_HiddenPlusVisible ==
    ResultsApplied => hidden_count + Len(lv) = Len(all_results)

\* A page with the same URL twice, both hidden by a click made before.
C12_Witness ==
    /\ status = Status("AllHidden")
    /\ Len(all_results) = 2
    /\ all_results[1] = all_results[2]
    /\ hidden_count = 2
    /\ lv = <<>>
    /\ <<"x">> \in clicked

\* The URLs of the in-memory set that clicked.json does not hold: their save
\* failed, and no save has succeeded since.
Unsaved == clicked \ _load_clicked(file)

\* C13: when the save of an open fails the session goes on with the
\* in-memory set: every URL opened in this session is in the set, the unsaved
\* ones with the others, no applied search shows an unsaved URL, and an open of
\* a displayed item is still taken.
C13_SaveFailureNotFatal ==
    /\ OpenedUrls \subseteq clicked
    /\ ResultsApplied => \A u \in Unsaved : u \notin Urls(lv)
    /\ (Unsaved # {} /\ lv # <<>>) => ENABLED action_open_selected

\* x was opened and its save failed, leaving a truncated file; a later search
\* of the session returned x and y, and shows y only.
C13_Witness ==
    /\ ResultsApplied
    /\ file = Garbage
    /\ Unsaved = {<<"x">>}
    /\ <<"x">> \in OpenedUrls
    /\ Urls(all_results) = {<<"x">>, <<"y">>}
    /\ Urls(lv) = {<<"y">>}

\* clicked.json is missing, or is not a JSON array of strings.
NotAStore(f) ==
    \/ f.kind \in {"missing", "garbage", "string", "number"}
    \/ f.kind = "array" /\ \E e \in Range(f.items) : IsNumber(e)

\* C14, as stated: a start of the program with clicked.json missing,
\* unparseable, or a JSON string, number or array of non-strings, loads the
\* empty set.
C14_MalformedLoadsEmpty ==
    [][(Restart /\ NotAStore(file)) => clicked' = {}]_vars

\* The spaces a variant adds before or after a query
Spaces(n) == [i \in 1..n |-> " "]

Lower(c) == IF c = "A" THEN "a" ELSE c

\* Runs of whitespace made one space, the whitespace at the ends dropped,
\* capitals made small: two queries with the same Canon are case and
\* whitespace variants of each other.
RECURSIVE Collapse(_)
Collapse(s) ==
    IF s = <<>> THEN <<>>
    ELSE IF IsSpace(Head(s)) /\ (Len(s) = 1 \/ IsSpace(s[2])) THEN Collapse(Tail(s))
    ELSE <<Lower(Head(s))>> \o Collapse(Tail(s))

Canon(s) ==
    LET t == Collapse(s) IN
    IF t # <<>> /\ IsSpace(Head(t)) THEN Tail(t) ELSE t

\* v and v2 are the same query with spaces added before and after.
EdgeVariants(v, v2) ==
    \E core \in TypedQueries :
        /\ core = <<>> \/ (~IsSpace(core[1]) /\ ~IsSpace(core[Len(core)]))
        /\ \E a \in 0..2, b \in 0..2 : v = Spaces(a) \o core \o Spaces(b)
        /\ \E a \in 0..2, b \in 0..2 : v2 = Spaces(a) \o core \o Spaces(b)

\* C15, as stated: the query a submission stores is a fixed point of the
\* normalization, and it is the same for every case variant and every
\* whitespace variant (at the ends, or in runs between words) of the text.
C15_Normalization ==
    [][\A v \in TypedQueries :
          on_input_submitted(v) =>
              /\ Strip(query') = query'
              /\ \A v2 \in TypedQueries :
                    Canon(v2) = Canon(v) => Strip(v2) = query']_vars

\* C15, amended: the query a submission stores is a fixed point of the
\* normalization, and it is the same for every variant of the text that
\* differs in the whitespace before and after it only; case variants and
\* runs of whitespace between words are kept as typed.
C15_StripNormalization ==
    [][\A v \in TypedQueries :
          on_input_submitted(v) =>
              /\ Strip(query') = query'
              /\ \A v2 \in TypedQueries :
                    EdgeVariants(v, v2) => Strip(v2) = query']_vars

\* " a A " was submitted: the search is for "a A".
C15_Witness ==
    /\ query = <<"a", " ", "A">>
    /\ current_query = <<"a", " ", "A">>
    /\ status = Status("Searching")

\* The statements of open_result after the test of the URL: the browser
\* launch, the log append, the add to the in-memory set, the save, the
\* removal from the list.
OpenSteps == <<"browser", "log", "add", "save", "remove">>

IsPrefix(s, t) == Len(s) <= Len(t) /\ s = SubSeq(t, 1, Len(s))

\* C16: an open of a result with a URL runs the browser launch, the log
\* append, the add to the in-memory set, the save and the removal in this
\* order, and runs them all whichever of them fail: the URL is in the set
\* before the save, and once open_result has ended all five have run.
C16_StepOrder ==
    /\ IsPrefix(opening.done, OpenSteps)
    /\ opening.pc \in {"save", "remove", "status"}
          => opening.result.url \in clicked
    /\ opening.pc \in {"idle", "status"} => opening.done \in {<<>>, OpenSteps}

\* An open has ended with its five statements run, the browser launch, the
\* log append and the save having failed.
C16_Witness ==
    /\ opening.pc = "idle"
    /\ opening.done = OpenSteps
    /\ status = Status("Tried to open")
    /\ log = NoLog
    /\ file = Garbage
    /\ clicked = {<<"x">>}

\* clicked.json holds every URL of the in-memory set, but for the URL of the
\* open that has added it and is about to save.
Synchronous ==
    Unsaved \subseteq (IF opening.pc = "save" THEN {opening.result.url} ELSE {})

\* The save of this step fails: the file is not left as the sorted array of
\* the in-memory set.
SaveFails == opening.pc = "save" /\ file' # ArrayFile(Sorted(clicked))

\* C17: the set is saved by the open that changes it: from the start, and
\* for as long as no save fails, clicked.json lacks at most one URL of the
\* in-memory set, the one of the open under way; every add comes with the
\* save next in the same open, and the open goes on only through that save.
C17_SynchronousSave ==
    /\ Synchronous
    /\ [][(Synchronous /\ ~SaveFails) => Synchronous']_vars
    /\ [][clicked' # clicked =>
            /\ opening'.pc = "save"
            /\ clicked' = clicked \cup {opening'.result.url}]_vars
    /\ [][(opening.pc = "save" /\ opening' # opening) =>
            opening'.done = <<"browser", "log", "add", "save">>]_vars

\* y has been added by the open under way and is not saved yet; x, opened
\* before, is in the file.
C17_Witness ==
    /\ opening.pc = "save"
    /\ opening.result.url = <<"y">>
    /\ clicked = {<<"x">>, <<"y">>}
    /\ file = ArrayFile(<< <<"x">> >>)
    /\ <<"x">> \in OpenedUrls

\* C18, as stated: an open of a displayed item takes that item, and no other,
\* out of the list, the others staying in their order, and starts no search.
C18_OpenRemovesOne ==
    /\ [][OpenRemove => lv' = RemoveAt(lv, opening.item)]_vars
    /\ [][opening.pc # "idle" =>
            /\ threads' = threads
            /\ <<current_query', page'>> = <<current_query, page>>
            /\ opening.pc # "remove" => lv' = lv]_vars

\* The session's current query and page index
Current == [query |-> current_query, page |-> page]

\* C19, as stated, for the searches that are for the session's current query
\* and page when they end: once such a search has ended, with its results or
\* with an error, and no search is in flight, a list that is displayed is the
\* outcome of a search for the current query at the current page index.
C19_ListMatchesPage ==
    [][\A w \in Slots :
          (/\ _search_thread(w)
           /\ [query |-> threads[w].query, page |-> threads[w].page] = Current
           /\ FreeSlots' = Slots
           /\ lv' # <<>>)
          => shown' = Current']_vars

\* C20, as stated: the row an open appends to the log has the query of the
\* search that filled the list the opened item was in.
C20_LoggedQuery ==
    [][log' # log => log'.last.query = shown.query]_vars

====
